---- MODULE Spec2Model ----
(***************************************************************************)
(* Keystone anonymous usage telemetry.                                     *)
(*                                                                         *)
(* The repository holds five generations of sendTelemetryEvent.  A process *)
(* loads exactly one of them; `variant` says which:                        *)
(*   "A"  packages/keystone/src/lib/telemetry/index.ts lines 1-47          *)
(*        (TELEMETRY_DISABLED === 'true', debug branch, logs caught error) *)
(*   "B"  same file, lines 76-126  (inline fingerprint, no debug branch)   *)
(*   "C"  same file, lines 128-182 (endpoint captured at module load)      *)
(*   "D"  unnamed/part_000 lines 1-47   (TELEMETRY_DISABLED === '1')       *)
(*   "E"  unnamed/part_000 lines 49-113 (KEYSTONE_TELEMETRY_*, Conf)       *)
(*                                                                         *)
(* JavaScript runs to completion: the body of sendTelemetryEvent is one    *)
(* step, the return to the caller is the next one, and the completion      *)
(* handlers of a request run only while no call is on the stack.           *)
(***************************************************************************)
EXTENDS Integers, Sequences, FiniteSets, TLC

VARIABLES
  variant,            \* which generation of the module this process loads
  modPc,              \* "unloaded" | "loaded" | "failed" (module-level code threw)
  confReadable,       \* can the persisted preference store be opened
  userConfig,         \* persisted value of telemetry.disabled, as a JS literal
  env,                \* process.env, restricted to the names the variant touches
  TELEMETRY_ENDPOINT, \* variant C: module-level const captured at load
  pc,                 \* "caller" | "inCall" : where control is
  calls,              \* number of calls to sendTelemetryEvent so far
  fetchCount,         \* number of invocations of fetch so far
  last,               \* arguments and effects of the latest call
  requests,           \* state of the promise of each request in flight
  gitOutput,          \* what `git config --get remote.origin.url` prints; None: it fails
  stub,               \* collector results handed to the merge, when they are stubbed
  result              \* value returned by the collector or merge that ran last

vars == <<variant, modPc, confReadable, userConfig, env, TELEMETRY_ENDPOINT,
          pc, calls, fetchCount, last, requests, gitOutput, stub, result>>

----------------------------------------------------------------------------
(* Bounds *)

MaxCalls == 2

----------------------------------------------------------------------------
(* JavaScript values.  A `string | undefined` is None or Some(s).          *)

None == <<>>
Some(s) == <<s>>
Null == <<"null", "null">>

Variants == {"A", "B", "C", "D", "E"}

\* a || b for a : string | undefined and b : string
Or(a, b) == IF a # None /\ a[1] # "" THEN a[1] ELSE b

\* Truthiness of a JSON value written as a JS literal
Truthy(lit) == lit \notin {"undefined", "null", "false", "0", "''"}

RECURSIVE Join(_)
Join(chars) == IF chars = <<>> THEN "" ELSE Head(chars) \o Join(Tail(chars))

----------------------------------------------------------------------------
(* Environment variables each variant reads or writes *)

DisabledVar(v) == IF v = "E" THEN "KEYSTONE_TELEMETRY_DISABLED" ELSE "TELEMETRY_DISABLED"
EndpointVar(v) == IF v = "E" THEN "KEYSTONE_TELEMETRY_ENDPOINT" ELSE "TELEMETRY_ENDPOINT"
DebugVar(v) == IF v = "E" THEN "KEYSTONE_TELEMETRY_DEBUG" ELSE "TELEMETRY_DEBUG"

HasDebug(v) == v \in {"A", "D", "E"}
UsesCollectors(v) == v \in {"A", "D", "E"}

DownstreamNames == {"NEXT_TELEMETRY_DISABLED", "CHECKPOINT_DISABLE"}
LocaleNames == {"LC_ALL", "LC_MESSAGES", "LANG", "LANGUAGE", "LC_NAME"}

ControlNames(v) ==
  {DisabledVar(v), EndpointVar(v)}
    \cup (IF HasDebug(v) THEN {DebugVar(v)} ELSE {})
    \cup (IF v = "E" THEN DownstreamNames ELSE {})
    \cup (IF v \in {"B", "C"} THEN {"TELEMETRY_PROJECT"} ELSE {})

EnvNames(v) ==
  ControlNames(v) \cup LocaleNames
    \cup (IF v \in {"B", "C"} THEN {"npm_package_dependencies__keystone_next_keystone"} ELSE {})

OverrideEndpoint == "https://keylemetry.com"

EnvDomain(n) ==
  CASE n \in {"TELEMETRY_DISABLED", "KEYSTONE_TELEMETRY_DISABLED"} ->
         {None, Some("1"), Some("true")}
    [] n \in {"TELEMETRY_ENDPOINT", "KEYSTONE_TELEMETRY_ENDPOINT"} ->
         {None, Some(""), Some(OverrideEndpoint)}
    [] n \in {"TELEMETRY_DEBUG", "KEYSTONE_TELEMETRY_DEBUG"} -> {None, Some("1")}
    [] n \in DownstreamNames -> {None, Some("1")}
    [] n = "TELEMETRY_PROJECT" -> {None, Some("my-project")}
    [] OTHER -> {None}

\* The locale and package-version variables as the test files set them.
FixedEnv(n) ==
  CASE n = "LC_ALL" -> Some(<<"A", "U", "_", "e", "n">>)
    [] n = "npm_package_dependencies__keystone_next_keystone" -> Some("1.0.0")
    [] OTHER -> None

----------------------------------------------------------------------------
(* Device fingerprint *)

MachineId == "device-hashed"
OsPlatform == "keystone-os"
OsRelease == "0.0.1"
NodeVersion == "v14.17.0"

IndexOf_last(str, ch) ==
  IF \E i \in 1..Len(str) : str[i] = ch
  THEN (CHOOSE i \in 1..Len(str) : str[i] = ch /\ \A j \in (i + 1)..Len(str) : str[j] # ch) - 1
  ELSE -1

IndexOf(str, ch) ==
  IF \E i \in 1..Len(str) : str[i] = ch
  THEN (CHOOSE i \in 1..Len(str) : str[i] = ch /\ \A j \in 1..(i - 1) : str[j] # ch) - 1
  ELSE -1

\* a || b where both are locale strings (sequences of characters) or undefined
LocaleOr(a, b) == IF a # None /\ a[1] # <<>> THEN a ELSE b

locale_messagesFirst(e) ==
  LET localeWithEncoding ==
        LocaleOr(e["LC_MESSAGES"], LocaleOr(e["LC_ALL"], LocaleOr(e["LANG"],
          LocaleOr(e["LANGUAGE"], e["LC_NAME"]))))
  IN IF localeWithEncoding = None \/ localeWithEncoding[1] = <<>>
     THEN Null
     ELSE LET str == localeWithEncoding[1]
              encodingIndex == IndexOf(str, ".")
          IN Some(Join(IF encodingIndex > -1 THEN SubSeq(str, 1, encodingIndex) ELSE str))

locale(e) ==
  LET localeWithEncoding ==
        LocaleOr(e["LC_ALL"], LocaleOr(e["LC_MESSAGES"], LocaleOr(e["LANG"],
          LocaleOr(e["LANGUAGE"], e["LC_NAME"]))))
  IN IF localeWithEncoding = None \/ localeWithEncoding[1] = <<>>
     THEN Null
     ELSE LET str == localeWithEncoding[1]
              encodingIndex == IndexOf(str, ".")
          IN Some(Join(IF encodingIndex > -1 THEN SubSeq(str, 1, encodingIndex) ELSE str))

deviceInfo(e) ==
  << <<"deviceHash", Some(MachineId)>>,
     <<"os", Some(OsPlatform)>>,
     <<"osVersion", Some(OsRelease)>>,
     <<"nodeVersion", Some(NodeVersion)>>,
     <<"locale", locale(e)>> >>

----------------------------------------------------------------------------
(* Project fingerprint *)

\* createHash('sha256').update(text).digest('hex'); update(undefined) throws
hashThrows(text) == text = None
hashText(text) == Some(text[1] \o "-sha256")

\* prismaSchema && hashText(prismaSchema)
hashIfTruthy(text) == IF text = None \/ text = Some("") THEN text ELSE hashText(text)

GitOriginNormalized == Some("github.com/keystone/keystone.git")

\* Strings that are taken apart are sequences of characters.
GitAt == <<"g", "i", "t", "@">>
Https == <<"h", "t", "t", "p", "s", ":", "/", "/">>
Http == <<"h", "t", "t", "p", ":", "/", "/">>
GithubHost == <<"g", "i", "t", "h", "u", "b", ".", "c", "o", "m">>
KeystonePath == <<"k", "e", "y", "s", "t", "o", "n", "e", "/", "k", "e", "y", "s", "t", "o", "n", "e", ".", "g", "i", "t">>

\* 'git@github.com:keystone/keystone.git', the first output the test feeds
TestGitOutput == GitAt \o GithubHost \o <<":">> \o KeystonePath

StartsWith(str, prefix) ==
  Len(str) >= Len(prefix) /\ SubSeq(str, 1, Len(prefix)) = prefix

Drop(str, n) == SubSeq(str, n + 1, Len(str))

stripNewline(str) ==
  IF str # <<>> /\ str[Len(str)] = "\n" THEN SubSeq(str, 1, Len(str) - 1) ELSE str

\* user@ in front of the host: an @ before the first /
stripUser(str) ==
  LET at == IndexOf(str, "@")
      slash == IndexOf(str, "/")
  IN IF at > -1 /\ (slash = -1 \/ at < slash) THEN Drop(str, at + 1) ELSE str

\* Mutant of normalizeGitOrigin: the SSH form keeps its colon
normalizeGitOrigin_keepColon(raw) ==
  LET str == stripNewline(raw)
  IN IF StartsWith(str, GitAt) THEN Drop(str, Len(GitAt))
     ELSE IF StartsWith(str, Https) THEN stripUser(Drop(str, Len(Https)))
     ELSE IF StartsWith(str, Http) THEN stripUser(Drop(str, Len(Http)))
     ELSE str

\* The remote URL reduced to host/path (specification, section 4.3)
normalizeGitOrigin(raw) ==
  LET str == stripNewline(raw)
  IN IF StartsWith(str, GitAt)
     THEN LET rest == Drop(str, Len(GitAt))
              colon == IndexOf(rest, ":")
          IN IF colon > -1 THEN [rest EXCEPT ![colon + 1] = "/"] ELSE rest
     ELSE IF StartsWith(str, Https) THEN stripUser(Drop(str, Len(Https)))
     ELSE IF StartsWith(str, Http) THEN stripUser(Drop(str, Len(Http)))
     ELSE str

\* Mutant of gitOriginHash: an empty output is hashed like any other
gitOriginHash_hashEmpty(out) ==
  IF out = None THEN Null ELSE hashText(Some(Join(normalizeGitOrigin(out[1]))))

\* null when the command fails or prints nothing, else the digest of host/path
gitOriginHash(out) ==
  IF out = None \/ out[1] = <<>> THEN Null
  ELSE hashText(Some(Join(normalizeGitOrigin(out[1]))))

RECURSIVE CountsText(_)
CountsText(ls) ==
  IF ls = <<>> THEN ""
  ELSE ToString(Len(Head(ls)[2])) \o (IF Len(ls) > 1 THEN "," ELSE "") \o CountsText(Tail(ls))

\* projectInfo.ts is not part of the sources; its result is taken from the
\* specification (section 4.3) and from the fixture of the test file.
projectInfo(v, cwd, summary) ==
  << <<"gitOriginHash", gitOriginHash(gitOutput)>>,
     <<"pathHash", hashText(cwd)>> >>
  \o (IF v = "A"
      THEN << <<"schemaHash", hashIfTruthy(summary)>> >>
      ELSE << <<"fieldCounts",
                IF summary = None THEN None
                ELSE Some("[" \o CountsText(summary[1]) \o "]")>> >>)
  \o << <<"keystonePackages", Some("{@keystonejs/keystone:1.2.3}")>> >>

----------------------------------------------------------------------------
(* Objects are sequences of <<key, value>> with distinct keys, in insertion *)
(* order.                                                                  *)

Keys(obj) == {obj[i][1] : i \in 1..Len(obj)}
Lookup(obj, k) == (CHOOSE i \in 1..Len(obj) : obj[i][1] = k)

\* obj with key k set to val: an existing key keeps its position
SetKey(obj, k, val) ==
  IF k \in Keys(obj)
  THEN [obj EXCEPT ![Lookup(obj, k)] = <<k, val>>]
  ELSE Append(obj, <<k, val>>)

\* { ...a, ...b }
RECURSIVE Spread(_, _)
Spread(a, b) ==
  IF b = <<>> THEN a ELSE Spread(SetKey(a, Head(b)[1], Head(b)[2]), Tail(b))

\* JSON.stringify of a flat object: a key whose value is undefined is left out
Stringify(obj) == SelectSeq(obj, LAMBDA p : p[2] # None)

----------------------------------------------------------------------------
(* sendTelemetryEvent *)

DisabledValue(v) == IF v \in {"A", "B", "C"} THEN "true" ELSE "1"
\* Mutant of EventPath: only the newest variant has the versioned path
EventPath_unversioned(v) == IF v = "E" THEN "/v1/event" ELSE "/event"

EventPath(v) == IF v \in {"D", "E"} THEN "/v1/event" ELSE "/event"

\* defaults.telemetryEndpoint (config/defaults is not part of the sources: the
\* values are the ones the two test files expect); variant C has the literal.
DefaultEndpoint(v) ==
  IF v \in {"D", "E"} THEN "https://telemetry.keystonejs.com" ELSE "http://localhost:4000"

\* Steps of the body that can throw
Faults == {"none", "deviceInfo", "projectInfo", "stringify", "fetchThrows", "fetchNoPromise"}

NoArgs ==
  [eventType |-> None, environment |-> None, cwd |-> None, dbProvider |-> None,
   prismaSchema |-> None, lists |-> None]

TestLists ==
  << <<"Thing", <<"id", "name", "thing">> >>, <<"Stuff", <<"id", "name">> >> >>

\* The argument lists tried: nothing passed, the required arguments only, all
\* arguments.  Variants B and C call their first parameter `event`.
ArgSets(v) ==
  LET required ==
        [NoArgs EXCEPT !.eventType = Some("test-event"), !.cwd = Some("path"),
                       !.environment = IF v \in {"B", "C"} THEN Some("development") ELSE None]
      full ==
        [required EXCEPT
           !.dbProvider = IF UsesCollectors(v) THEN Some("mydb") ELSE None,
           !.prismaSchema = IF v \in {"A", "B", "C"} THEN Some("unique-schema") ELSE None,
           !.lists = IF v \in {"C", "D", "E"} THEN Some(TestLists) ELSE None]
  IN {NoArgs, required, full}

NoEffect ==
  [device |-> FALSE, project |-> FALSE, console |-> <<>>, fetch |-> <<>>,
   promise |-> FALSE, threw |-> FALSE, caught |-> FALSE, raised |-> FALSE]

Throw(eff) == [eff EXCEPT !.threw = TRUE]

\* Mutant of meta: the summary lists the names of the lists
RECURSIVE meta_listNames(_)
meta_listNames(lists) ==
  IF lists = None THEN None
  ELSE IF lists[1] = <<>> THEN Some("")
  ELSE Some(Head(lists[1])[1] \o "," \o meta_listNames(Some(Tail(lists[1])))[1])

\* meta: lists && { listCount: Object.keys(lists).length }
meta(lists) ==
  IF lists = None THEN None
  ELSE Some("{listCount:" \o ToString(Len(lists[1])) \o "}")

mergeEventData_collectorsLast(device, project, a) ==
  Spread(Spread(Spread(<<>>, << <<"dbProvider", a.dbProvider>>, <<"eventType", a.eventType>> >>),
                device),
         project)

\* { ...deviceInfo(), ...projectInfo(cwd, lists), dbProvider, eventType }
mergeEventData(device, project, a) ==
  Spread(Spread(Spread(<<>>, device), project),
         << <<"dbProvider", a.dbProvider>>, <<"eventType", a.eventType>> >>)

\* the object literal `eventData`
eventData(v, e, a) ==
  IF UsesCollectors(v)
  THEN mergeEventData(deviceInfo(e),
                      projectInfo(v, a.cwd, IF v = "A" THEN a.prismaSchema ELSE a.lists), a)
  ELSE << <<"device", Some(MachineId)>>,
          <<"project", IF e["TELEMETRY_PROJECT"] # None /\ e["TELEMETRY_PROJECT"] # Some("")
                       THEN e["TELEMETRY_PROJECT"] ELSE hashText(a.cwd)>>,
          <<"schema", hashIfTruthy(a.prismaSchema)>>,
          <<"keystoneVersion", e["npm_package_dependencies__keystone_next_keystone"]>>,
          <<"environment", a.environment>>,
          <<"os", Some(OsPlatform)>>,
          <<"osLanguage",
            LET l == LocaleOr(e["LC_ALL"], LocaleOr(e["LC_MESSAGES"],
                       LocaleOr(e["LANG"], e["LANGUAGE"])))
            IN IF l = None THEN None ELSE Some(Join(l[1]))>>,
          <<"event", a.eventType>> >>
       \o (IF v = "C" THEN << <<"meta", meta(a.lists)>> >> ELSE <<>>)

\* does building eventData hash an undefined value
eventDataThrows(v, e, a) ==
  IF UsesCollectors(v)
  THEN hashThrows(a.cwd)
  ELSE Or(e["TELEMETRY_PROJECT"], "") = "" /\ hashThrows(a.cwd)

\* the endpoint the call resolves; c is the module-level const of variant C
telemetryEndpoint(v, e, c) ==
  IF v = "C" THEN c[1] ELSE Or(e[EndpointVar(v)], DefaultEndpoint(v))

telemetryUrl(v, e, c) == telemetryEndpoint(v, e, c) \o EventPath(v)

\* Mutant of fetchOptions: the method is left at the default of fetch
fetchOptions_get(body) ==
  [method |-> "GET", headers |-> << <<"Content-Type", "application/json">> >>, body |-> body]

fetchOptions(body) ==
  [method |-> "POST", headers |-> << <<"Content-Type", "application/json">> >>, body |-> body]

\* the debug branch
debugLog_urlOnly(v, url, data) == << <<"text", "[Telemetry]: " \o url>> >>

debugLog(v, url, data) ==
  IF v = "E" THEN << <<"text", "[Telemetry]: " \o url>>, <<"object", data>> >>
  ELSE << <<"object", data>> >>

\* Mutants of isDisabled: the test reads a name nothing sets; the test is a
\* truthiness test instead of a comparison with one literal.
isDisabled_wrongName(v, e) == None = Some(DisabledValue(v))
isDisabled_truthy(v, e) == e[DisabledVar(v)] # None /\ e[DisabledVar(v)] # Some("")

\* if (process.env.TELEMETRY_DISABLED === 'true'), === '1' in variants D and E
isDisabled(v, e) == e[DisabledVar(v)] = Some(DisabledValue(v))

\* Mutant of isDebug: the flag is compared with 'true'
isDebug_true(v, e) == HasDebug(v) /\ e[DebugVar(v)] = Some("true")

\* if (process.env.TELEMETRY_DEBUG === '1'); variants B and C have no such test
isDebug(v, e) == HasDebug(v) /\ e[DebugVar(v)] = Some("1")

\* Mutant of tryBlock: the debug flag is tested before the disable flag
tryBlock_debugFirst(v, e, c, a, f) ==
  IF isDebug(v, e) /\ f = "none" /\ ~eventDataThrows(v, e, a)
  THEN [NoEffect EXCEPT !.device = TRUE, !.project = TRUE,
                        !.console = debugLog(v, telemetryUrl(v, e, c), eventData(v, e, a))]
  ELSE IF isDisabled(v, e) THEN NoEffect
  ELSE
    LET s1 == [NoEffect EXCEPT !.device = TRUE] IN
    IF f = "deviceInfo" THEN Throw(s1)
    ELSE
      LET s2 == [s1 EXCEPT !.project = TRUE] IN
      IF f = "projectInfo" \/ eventDataThrows(v, e, a) THEN Throw(s2)
      ELSE
        IF isDebug(v, e) THEN s2
        ELSE
          IF f = "stringify" THEN Throw(s2)
          ELSE
            LET s3 == [s2 EXCEPT !.fetch =
                         << [url |-> telemetryUrl(v, e, c),
                             options |-> fetchOptions(Stringify(eventData(v, e, a)))] >>]
            IN IF f \in {"fetchThrows", "fetchNoPromise"} THEN Throw(s3)
               ELSE [s3 EXCEPT !.promise = TRUE]

\* the statements inside try { }, up to an exception or the end of the block
tryBlock(v, e, c, a, f) ==
  IF isDisabled(v, e) THEN NoEffect
  ELSE
    LET s1 == [NoEffect EXCEPT !.device = TRUE] IN
    IF f = "deviceInfo" THEN Throw(s1)
    ELSE
      LET s2 == [s1 EXCEPT !.project = TRUE] IN
      IF f = "projectInfo" \/ eventDataThrows(v, e, a) THEN Throw(s2)
      ELSE
        IF isDebug(v, e)
        THEN [s2 EXCEPT !.console = debugLog(v, telemetryUrl(v, e, c), eventData(v, e, a))]
        ELSE
          IF f = "stringify" THEN Throw(s2)
          ELSE
            LET s3 == [s2 EXCEPT !.fetch =
                         << [url |-> telemetryUrl(v, e, c),
                             options |-> fetchOptions(Stringify(eventData(v, e, a)))] >>]
            IN IF f \in {"fetchThrows", "fetchNoPromise"} THEN Throw(s3)
               ELSE [s3 EXCEPT !.promise = TRUE]

\* Mutant of catchBlock: the handler rethrows
catchBlock_rethrow(v, eff) == [eff EXCEPT !.caught = TRUE, !.raised = TRUE]

\* catch (err) { }: variant A logs the error, the others do nothing
catchBlock(v, eff) ==
  [eff EXCEPT !.caught = TRUE,
              !.console = IF v = "A" THEN Append(@, <<"error">>) ELSE @]

\* one call, from entry to the point where control leaves the function
sendTelemetryEvent(v, e, c, a, f) ==
  LET body == tryBlock(v, e, c, a, f)
  IN IF body.threw THEN catchBlock(v, body) ELSE body

----------------------------------------------------------------------------
(* Module-level code *)

\* values telemetry.disabled can hold in the preference store, as JS literals
ConfValues == {"undefined", "true", "false", "'false'"}

\* Mutants of moduleEnv: only the NextJS flag is propagated; the persisted
\* preference applies only when the environment variable is unset.
moduleEnv_nextOnly(e, userTelemetryDisabled) ==
  LET e1 == IF Truthy(userTelemetryDisabled)
            THEN [e EXCEPT !["KEYSTONE_TELEMETRY_DISABLED"] = Some("1")]
            ELSE e
  IN IF e1["KEYSTONE_TELEMETRY_DISABLED"] = Some("1")
     THEN [e1 EXCEPT !["NEXT_TELEMETRY_DISABLED"] = Some("1")]
     ELSE e1

moduleEnv_envFirst(e, userTelemetryDisabled) ==
  LET e1 == IF Truthy(userTelemetryDisabled) /\ e["KEYSTONE_TELEMETRY_DISABLED"] = None
            THEN [e EXCEPT !["KEYSTONE_TELEMETRY_DISABLED"] = Some("1")]
            ELSE e
  IN IF e1["KEYSTONE_TELEMETRY_DISABLED"] = Some("1")
     THEN [e1 EXCEPT !["NEXT_TELEMETRY_DISABLED"] = Some("1"),
                     !["CHECKPOINT_DISABLE"] = Some("1")]
     ELSE e1

\* process.env after the two module-level if statements of variant E
moduleEnv(e, userTelemetryDisabled) ==
  LET e1 == IF Truthy(userTelemetryDisabled)
            THEN [e EXCEPT !["KEYSTONE_TELEMETRY_DISABLED"] = Some("1")]
            ELSE e
  IN IF e1["KEYSTONE_TELEMETRY_DISABLED"] = Some("1")
     THEN [e1 EXCEPT !["NEXT_TELEMETRY_DISABLED"] = Some("1"),
                     !["CHECKPOINT_DISABLE"] = Some("1")]
     ELSE e1

----------------------------------------------------------------------------
(* State machine *)

Init ==
  /\ variant \in Variants
  /\ modPc = "unloaded"
  /\ confReadable \in (IF variant = "E" THEN BOOLEAN ELSE {TRUE})
  /\ userConfig \in (IF variant = "E" THEN ConfValues ELSE {"undefined"})
  /\ \E ctl \in [ControlNames(variant) -> UNION {EnvDomain(n) : n \in ControlNames(variant)}] :
       /\ \A n \in ControlNames(variant) : ctl[n] \in EnvDomain(n)
       /\ env = [n \in EnvNames(variant) |->
                   IF n \in ControlNames(variant) THEN ctl[n] ELSE FixedEnv(n)]
  /\ TELEMETRY_ENDPOINT = None
  /\ pc = "caller"
  /\ calls = 0
  /\ fetchCount = 0
  /\ last = [args |-> NoArgs, eff |-> NoEffect]
  /\ requests = <<>>
  /\ gitOutput = Some(TestGitOutput)
  /\ stub = None
  /\ result = None

\* the host process sets or deletes an environment variable
SetEnv(n, val) ==
  /\ pc = "caller"
  /\ env[n] # val
  /\ env' = [env EXCEPT ![n] = val]
  /\ UNCHANGED <<variant, gitOutput, stub, result, modPc, confReadable, userConfig, TELEMETRY_ENDPOINT,
                 pc, calls, fetchCount, last, requests>>

\* the first import of the telemetry module runs its top-level statements
LoadModule ==
  /\ modPc = "unloaded"
  /\ pc = "caller"
  /\ IF variant = "E" /\ ~confReadable
     THEN modPc' = "failed" /\ UNCHANGED <<env, TELEMETRY_ENDPOINT>>
     ELSE /\ modPc' = "loaded"
          /\ env' = IF variant = "E" THEN moduleEnv(env, userConfig) ELSE env
          /\ TELEMETRY_ENDPOINT' =
               IF variant = "C" THEN Some(Or(env["TELEMETRY_ENDPOINT"], "http://localhost:4000"))
               ELSE TELEMETRY_ENDPOINT
  /\ UNCHANGED <<variant, gitOutput, stub, result, confReadable, userConfig, pc, calls, fetchCount, last, requests>>

\* Mutant of Call: a suppressed call sets the downstream disable variables
Call_propagates(a, f) ==
  /\ modPc = "loaded"
  /\ pc = "caller"
  /\ calls < MaxCalls
  /\ LET eff == sendTelemetryEvent(variant, env, TELEMETRY_ENDPOINT, a, f)
     IN /\ last' = [args |-> a, eff |-> eff]
        /\ fetchCount' = fetchCount + Len(eff.fetch)
        /\ requests' = IF eff.promise THEN Append(requests, "pending") ELSE requests
  /\ env' = IF variant = "E" /\ isDisabled(variant, env)
            THEN [env EXCEPT !["NEXT_TELEMETRY_DISABLED"] = Some("1"),
                             !["CHECKPOINT_DISABLE"] = Some("1")]
            ELSE env
  /\ calls' = calls + 1
  /\ pc' = "inCall"
  /\ UNCHANGED <<variant, gitOutput, stub, result, modPc, confReadable, userConfig,
                 TELEMETRY_ENDPOINT>>

\* Mutant of Call: once a call has been suppressed, every later call is
Call_stickyDisable(a, f) ==
  /\ modPc = "loaded"
  /\ pc = "caller"
  /\ calls < MaxCalls
  /\ LET eff == IF calls > 0 /\ ~last.eff.device THEN NoEffect
                ELSE sendTelemetryEvent(variant, env, TELEMETRY_ENDPOINT, a, f)
     IN /\ last' = [args |-> a, eff |-> eff]
        /\ fetchCount' = fetchCount + Len(eff.fetch)
        /\ requests' = IF eff.promise THEN Append(requests, "pending") ELSE requests
  /\ calls' = calls + 1
  /\ pc' = "inCall"
  /\ UNCHANGED <<variant, gitOutput, stub, result, modPc, confReadable, userConfig, env,
                 TELEMETRY_ENDPOINT>>

\* Mutant of Call: a call in which something threw switches telemetry off
Call_disablesOnError(a, f) ==
  /\ modPc = "loaded"
  /\ pc = "caller"
  /\ calls < MaxCalls
  /\ LET eff == sendTelemetryEvent(variant, env, TELEMETRY_ENDPOINT, a, f)
     IN /\ last' = [args |-> a, eff |-> eff]
        /\ fetchCount' = fetchCount + Len(eff.fetch)
        /\ requests' = IF eff.promise THEN Append(requests, "pending") ELSE requests
        /\ env' = IF eff.caught
                  THEN [env EXCEPT ![DisabledVar(variant)] = Some(DisabledValue(variant))]
                  ELSE env
  /\ calls' = calls + 1
  /\ pc' = "inCall"
  /\ UNCHANGED <<variant, gitOutput, stub, result, modPc, confReadable, userConfig,
                 TELEMETRY_ENDPOINT>>

\* the body of sendTelemetryEvent runs
Call(a, f) ==
  /\ modPc = "loaded"
  /\ pc = "caller"
  /\ calls < MaxCalls
  /\ LET eff == sendTelemetryEvent(variant, env, TELEMETRY_ENDPOINT, a, f)
     IN /\ last' = [args |-> a, eff |-> eff]
        /\ fetchCount' = fetchCount + Len(eff.fetch)
        /\ requests' = IF eff.promise THEN Append(requests, "pending") ELSE requests
  /\ calls' = calls + 1
  /\ pc' = "inCall"
  /\ UNCHANGED <<variant, gitOutput, stub, result, modPc, confReadable, userConfig, env, TELEMETRY_ENDPOINT>>

\* Mutant of Return: the call gives control back only once its request settled
Return_awaits ==
  /\ pc = "inCall"
  /\ \A i \in 1..Len(requests) : requests[i] # "pending"
  /\ pc' = "caller"
  /\ UNCHANGED <<variant, gitOutput, stub, result, modPc, confReadable, userConfig, env, TELEMETRY_ENDPOINT,
                 calls, fetchCount, last, requests>>

\* control goes back to the caller: the promise is not awaited
Return ==
  /\ pc = "inCall"
  /\ pc' = "caller"
  /\ UNCHANGED <<variant, gitOutput, stub, result, modPc, confReadable, userConfig, env, TELEMETRY_ENDPOINT,
                 calls, fetchCount, last, requests>>

\* HTTP statuses a response can carry
Statuses == {"200", "404", "500"}

\* A promise is <<state, value>>.  The promise fetch returns is fulfilled with
\* a response (its status) or rejected with an error.
Fulfilled(val) == <<"fulfilled", val>>
Rejected(val) == <<"rejected", val>>

\* .then(() => {}, () => {}) in variants D and E: either handler returns
\* undefined; .then() in variants A, B and C passes the promise through
thenStep(v, p) == IF v \in {"D", "E"} THEN Fulfilled("undefined") ELSE p

\* Mutant of catchStep: the chain ends without a rejection handler
catchStep_absent(p) == p

\* .catch(() => {})
catchStep(p) == IF p[1] = "rejected" THEN Fulfilled("undefined") ELSE p

\* what becomes of a request whose fetch promise settles as p: a chain that
\* ends rejected is an unhandled rejection
settled(v, p) ==
  IF catchStep(thenStep(v, p))[1] = "rejected" THEN "unhandled"
  ELSE IF p[1] = "fulfilled" THEN "resolved" ELSE "rejected"

\* a request completes with a response of some status; the chain runs
FetchResolves(i, status) ==
  /\ pc = "caller"
  /\ requests[i] = "pending"
  /\ requests' = [requests EXCEPT ![i] = settled(variant, Fulfilled(status))]
  /\ UNCHANGED <<variant, gitOutput, stub, result, modPc, confReadable, userConfig, env, TELEMETRY_ENDPOINT,
                 pc, calls, fetchCount, last>>

\* Mutant of FetchRejects: the rejection handler sends the event again
FetchRejects_retries(i) ==
  /\ pc = "caller"
  /\ requests[i] = "pending"
  /\ requests' = Append([requests EXCEPT ![i] = settled(variant, Rejected("error"))], "pending")
  /\ fetchCount' = fetchCount + 1
  /\ UNCHANGED <<variant, gitOutput, stub, result, modPc, confReadable, userConfig, env, TELEMETRY_ENDPOINT,
                 pc, calls, last>>

\* a request fails; the chain runs
FetchRejects(i) ==
  /\ pc = "caller"
  /\ requests[i] = "pending"
  /\ requests' = [requests EXCEPT ![i] = settled(variant, Rejected("error"))]
  /\ UNCHANGED <<variant, gitOutput, stub, result, modPc, confReadable, userConfig, env, TELEMETRY_ENDPOINT,
                 pc, calls, fetchCount, last>>

Next ==
  \/ \E n \in ControlNames(variant) : \E val \in EnvDomain(n) : SetEnv(n, val)
  \/ LoadModule
  \/ \E a \in ArgSets(variant), f \in Faults : Call(a, f)
  \/ Return
  \/ \E i \in 1..Len(requests), status \in Statuses : FetchResolves(i, status)
  \/ \E i \in 1..Len(requests) : FetchRejects(i)

Spec == Init /\ [][Next]_vars

----------------------------------------------------------------------------
(* The collectors on their own.  The process is as after a quiet load of    *)
(* variant E; one collector runs once on inputs drawn by the initial state. *)

QuietEnv(v) == [n \in EnvNames(v) |-> FixedEnv(n)]

Quiet(v) ==
  /\ variant = v
  /\ modPc = "loaded"
  /\ confReadable = TRUE
  /\ userConfig = "undefined"
  /\ TELEMETRY_ENDPOINT = None
  /\ pc = "caller"
  /\ calls = 0
  /\ fetchCount = 0
  /\ last = [args |-> NoArgs, eff |-> NoEffect]
  /\ requests = <<>>
  /\ result = None

GitHosts == {GithubHost, <<"a", ".", "i", "o">>, <<"g", "i", "t", "l", "a", "b", ".", "c", "o", "m">>}
GitPaths == {KeystonePath, <<"o", "/", "r">>, <<"o", "r", "g", "/", "r", "e", "p", "o", ".", "g", "i", "t">>}
GitUsers == {<<"u">>, <<"u", "s", "e", "r", "n", "a", "m", "e">>}

\* the raw outputs that denote host h and path p, with and without the newline
GitForms(h, p) ==
  LET plain == {GitAt \o h \o <<":">> \o p,
                Https \o h \o <<"/">> \o p,
                Http \o h \o <<"/">> \o p}
                 \cup {Https \o u \o <<"@">> \o h \o <<"/">> \o p : u \in GitUsers}
  IN plain \cup {raw \o <<"\n">> : raw \in plain}

GitOutputs ==
  {None, Some(<<>>)} \cup {Some(raw) : raw \in UNION {GitForms(h, p) : h \in GitHosts, p \in GitPaths}}

InitGit ==
  /\ Quiet("E")
  /\ env = QuietEnv("E")
  /\ gitOutput \in GitOutputs
  /\ stub = None

\* projectInfo(cwd, lists) is called once
RunProjectInfo(cwd, lists) ==
  /\ result = None
  /\ result' = projectInfo(variant, cwd, lists)
  /\ UNCHANGED <<variant, modPc, confReadable, userConfig, env, TELEMETRY_ENDPOINT,
                 pc, calls, fetchCount, last, requests, gitOutput, stub>>

NextGit == \E a \in {x \in ArgSets(variant) : x.cwd # None} : RunProjectInfo(a.cwd, a.lists)

SpecGit == InitGit /\ [][NextGit]_vars

\* values a locale variable can hold: unset, empty, with one encoding suffix,
\* without one, with two dots, and starting with the dot
LocaleValues ==
  {None, Some(<<>>), Some(<<"e", "n", "_", "A", "U", ".", "U", "T", "F", "8">>), Some(<<"f", "r">>), Some(<<"a", ".", "b", ".", "c">>), Some(<<".", "U">>)}

InitLocale ==
  /\ Quiet("E")
  /\ \E loc \in [LocaleNames -> LocaleValues] :
        env = [n \in EnvNames("E") |-> IF n \in LocaleNames THEN loc[n] ELSE None]
  /\ gitOutput = Some(TestGitOutput)
  /\ stub = None

\* deviceInfo() is called once
RunDeviceInfo ==
  /\ result = None
  /\ result' = deviceInfo(env)
  /\ UNCHANGED <<variant, modPc, confReadable, userConfig, env, TELEMETRY_ENDPOINT,
                 pc, calls, fetchCount, last, requests, gitOutput, stub>>

NextLocale == RunDeviceInfo

SpecLocale == InitLocale /\ [][NextLocale]_vars

\* the elements of seq whose index is in S, in order
RECURSIVE Pick(_, _)
Pick(seq, S) ==
  IF seq = <<>> THEN <<>>
  ELSE Pick(SubSeq(seq, 1, Len(seq) - 1), S)
         \o (IF Len(seq) \in S THEN <<seq[Len(seq)]>> ELSE <<>>)

\* keys a replaced deviceInfo may carry besides its own: the two caller keys
\* and one key of projectInfo
DeviceExtras ==
  << <<"eventType", Some("device-event")>>, <<"dbProvider", Some("device-db")>>,
     <<"pathHash", Some("device-path")>> >>

\* keys a replaced projectInfo may carry besides its own: the two caller keys
\* and one key of deviceInfo
ProjectExtras ==
  << <<"eventType", Some("project-event")>>, <<"dbProvider", Null>>,
     <<"os", Some("project-os")>> >>

\* The collectors are replaced by functions returning stub.device and
\* stub.project; the body of sendTelemetryEvent builds eventData from them.
InitMerge ==
  /\ Quiet("E")
  /\ env = QuietEnv("E")
  /\ gitOutput = Some(TestGitOutput)
  /\ \E D \in SUBSET (1..Len(DeviceExtras)), P \in SUBSET (1..Len(ProjectExtras)) :
        stub = [device |-> deviceInfo(env) \o Pick(DeviceExtras, D),
                project |-> projectInfo("E", Some("path"), Some(TestLists))
                              \o Pick(ProjectExtras, P)]

\* the eventData literal is evaluated once with arguments a
BuildEventData(a) ==
  /\ result = None
  /\ result' = mergeEventData(stub.device, stub.project, a)
  /\ last' = [last EXCEPT !.args = a]
  /\ UNCHANGED <<variant, modPc, confReadable, userConfig, env, TELEMETRY_ENDPOINT,
                 pc, calls, fetchCount, requests, gitOutput, stub>>

NextMerge == \E a \in ArgSets(variant) : BuildEventData(a)

SpecMerge == InitMerge /\ [][NextMerge]_vars

----------------------------------------------------------------------------
(* Repeated calls.  The module is loaded; stub names one argument list and  *)
(* one environment, and result keeps what the first call made with them did. *)

\* the environments a watched call is made in: nothing set, endpoint overridden
WatchedEnvs(v) ==
  {QuietEnv(v), [QuietEnv(v) EXCEPT ![EndpointVar(v)] = Some(OverrideEndpoint)]}

InitRepeat ==
  /\ variant \in Variants
  /\ modPc = "loaded"
  /\ confReadable = TRUE
  /\ userConfig = "undefined"
  /\ env = QuietEnv(variant)
  /\ TELEMETRY_ENDPOINT = IF variant = "C" THEN Some("http://localhost:4000") ELSE None
  /\ pc = "caller"
  /\ calls = 0
  /\ fetchCount = 0
  /\ last = [args |-> NoArgs, eff |-> NoEffect]
  /\ requests = <<>>
  /\ gitOutput = Some(TestGitOutput)
  /\ stub \in {[args |-> a, env |-> e] : a \in ArgSets(variant) \ {NoArgs}, e \in WatchedEnvs(variant)}
  /\ result = None

\* is this call one with the watched arguments and environment
Watched(a) == a = stub.args /\ env = stub.env

\* Mutant of CallRepeat: the body numbers its requests
CallRepeat_numbered(a, f) ==
  /\ pc = "caller"
  /\ calls < MaxCalls + 1
  /\ LET body == sendTelemetryEvent(variant, env, TELEMETRY_ENDPOINT, a, f)
         eff == [body EXCEPT !.fetch =
                   [i \in 1..Len(body.fetch) |->
                      [body.fetch[i] EXCEPT !.url = @ \o "?n=" \o ToString(calls)]]]
     IN /\ last' = [args |-> a, eff |-> eff]
        /\ fetchCount' = fetchCount + Len(eff.fetch)
        /\ requests' = IF eff.promise THEN Append(requests, "pending") ELSE requests
        /\ result' = IF result = None /\ Watched(a) /\ ~eff.threw THEN Some(eff) ELSE result
  /\ calls' = calls + 1
  /\ pc' = "inCall"
  /\ UNCHANGED <<variant, gitOutput, stub, modPc, confReadable, userConfig, env,
                 TELEMETRY_ENDPOINT>>

\* the body of sendTelemetryEvent runs; the first watched call that does not
\* throw is remembered
CallRepeat(a, f) ==
  /\ pc = "caller"
  /\ calls < MaxCalls + 1
  /\ LET eff == sendTelemetryEvent(variant, env, TELEMETRY_ENDPOINT, a, f)
     IN /\ last' = [args |-> a, eff |-> eff]
        /\ fetchCount' = fetchCount + Len(eff.fetch)
        /\ requests' = IF eff.promise THEN Append(requests, "pending") ELSE requests
        /\ result' = IF result = None /\ Watched(a) /\ ~eff.threw THEN Some(eff) ELSE result
  /\ calls' = calls + 1
  /\ pc' = "inCall"
  /\ UNCHANGED <<variant, gitOutput, stub, modPc, confReadable, userConfig, env,
                 TELEMETRY_ENDPOINT>>

NextRepeat ==
  \/ \E n \in {EndpointVar(variant)} : \E val \in EnvDomain(n) : SetEnv(n, val)
  \/ \E a \in ArgSets(variant), f \in Faults : CallRepeat(a, f)
  \/ Return
  \/ \E i \in 1..Len(requests), status \in Statuses : FetchResolves(i, status)
  \/ \E i \in 1..Len(requests) : FetchRejects(i)

SpecRepeat == InitRepeat /\ [][NextRepeat]_vars

----------------------------------------------------------------------------
(* The KEYSTONE_TELEMETRY_* version beside the TELEMETRY_* version of the   *)
(* same file.  The process runs variant E with no persisted preference; one *)
(* call is made, and the same call is made to variant D in the environment  *)
(* that holds under the old names what this one holds under the new names.  *)

NewName(n) ==
  CASE n = "TELEMETRY_DISABLED" -> "KEYSTONE_TELEMETRY_DISABLED"
    [] n = "TELEMETRY_ENDPOINT" -> "KEYSTONE_TELEMETRY_ENDPOINT"
    [] n = "TELEMETRY_DEBUG" -> "KEYSTONE_TELEMETRY_DEBUG"
    [] OTHER -> n

\* the environment of variant D that corresponds to environment e of variant E
OldNames(e) == [n \in EnvNames("D") |-> e[NewName(n)]]

InitRename ==
  /\ variant = "E"
  /\ modPc = "unloaded"
  /\ confReadable = TRUE
  /\ userConfig = "undefined"
  /\ \E ctl \in [ControlNames("E") -> UNION {EnvDomain(n) : n \in ControlNames("E")}] :
       /\ \A n \in ControlNames("E") : ctl[n] \in EnvDomain(n)
       /\ env = [n \in EnvNames("E") |-> IF n \in ControlNames("E") THEN ctl[n] ELSE FixedEnv(n)]
  /\ TELEMETRY_ENDPOINT = None
  /\ pc = "caller"
  /\ calls = 0
  /\ fetchCount = 0
  /\ last = [args |-> NoArgs, eff |-> NoEffect]
  /\ requests = <<>>
  /\ gitOutput = Some(TestGitOutput)
  /\ stub = None
  /\ result = None

\* one call with arguments a and collector behaviour f, to each version
CallBoth(a, f) ==
  /\ modPc = "loaded"
  /\ result = None
  /\ result' = Some([new |-> sendTelemetryEvent("E", env, None, a, f),
                     old |-> sendTelemetryEvent("D", OldNames(env), None, a, f)])
  /\ last' = [last EXCEPT !.args = a]
  /\ UNCHANGED <<variant, modPc, confReadable, userConfig, env, TELEMETRY_ENDPOINT,
                 pc, calls, fetchCount, requests, gitOutput, stub>>

NextRename ==
  \/ LoadModule
  \/ \E n \in ControlNames(variant) : \E val \in EnvDomain(n) : SetEnv(n, val)
  \/ \E a \in ArgSets(variant), f \in Faults : CallBoth(a, f)

SpecRename == InitRename /\ [][NextRename]_vars

----------------------------------------------------------------------------
(* Properties *)

\* a step that runs the body of sendTelemetryEvent
IsCall == calls' = calls + 1

\* a step that runs the module-level code of variant E to its end
IsLoadE == variant = "E" /\ modPc = "unloaded" /\ modPc' = "loaded"

Range(seq) == {seq[i] : i \in 1..Len(seq)}

\* the value of key k in an object
Get(obj, k) == obj[Lookup(obj, k)][2]

\* C1: a call made while the disable variable of the loaded variant holds that
\* variant's disabling value invokes fetch zero times and invokes neither the
\* device collector nor the project collector.
C1_DisabledNoFetchNoCollect ==
  [][(IsCall /\ env[DisabledVar(variant)] = Some(DisabledValue(variant)))
       => /\ fetchCount' = fetchCount
          /\ requests' = requests
          /\ last'.eff.fetch = <<>>
          /\ ~last'.eff.device
          /\ ~last'.eff.project]_vars

C1_Witness ==
  /\ pc = "inCall"
  /\ env[DisabledVar(variant)] = Some(DisabledValue(variant))
  /\ last.args.eventType # None
  /\ ~last.eff.device /\ ~last.eff.project /\ fetchCount = 0

\* C2: no call raises to its caller, whichever step of the body throws and
\* whatever becomes of the request.
C2_NeverRaises == ~last.eff.raised

\* fetch was invoked and threw, the error was caught
C2_Witness ==
  /\ pc = "caller" /\ calls >= 1
  /\ last.eff.fetch # <<>> /\ last.eff.threw /\ last.eff.caught /\ ~last.eff.raised

\* C3: once the body has run, the return to the caller is enabled whatever the
\* state of the requests, and so is the caller's next call.
C3_NeverWaits ==
  /\ pc = "inCall" => ENABLED Return
  /\ (pc = "caller" /\ modPc = "loaded" /\ calls < MaxCalls)
       => ENABLED (\E a \in ArgSets(variant), f \in Faults : Call(a, f))

\* control is back with the caller while the request of the call is pending
C3_Witness ==
  /\ pc = "caller" /\ calls >= 1
  /\ last.eff.promise
  /\ requests # <<>> /\ requests[Len(requests)] = "pending"

\* C4: fetch has been invoked at most once per call made so far.
C4_AtMostOneRequestPerCall == fetchCount <= calls

\* two calls, two requests, one of them rejected and not sent again
C4_Witness ==
  /\ calls >= 2 /\ fetchCount = calls
  /\ \E i \in 1..Len(requests) : requests[i] = "rejected"

C6_UrlFromEnvAtCallTime ==
  [][(IsCall /\ last'.eff.fetch # <<>>)
       => last'.eff.fetch[1].url =
            (IF env[EndpointVar(variant)] \notin {None, Some("")}
             THEN env[EndpointVar(variant)][1]
             ELSE DefaultEndpoint(variant)) \o EventPath(variant)]_vars

\* C7: a call that is neither disabled nor in debug mode and in which nothing
\* throws invokes fetch exactly once, with method POST and the JSON content
\* type; in the variants built on deviceInfo and projectInfo (A, D, E) the body
\* holds every defined device field, every defined project field, the
\* dbProvider and the eventType of the caller, and nothing else.
C7_OnePostWithMergedPayload ==
  [][(/\ IsCall
      /\ env[DisabledVar(variant)] # Some(DisabledValue(variant))
      /\ ~(HasDebug(variant) /\ env[DebugVar(variant)] = Some("1"))
      /\ ~last'.eff.caught)
       => /\ fetchCount' = fetchCount + 1
          /\ Len(last'.eff.fetch) = 1
          /\ last'.eff.fetch[1].options.method = "POST"
          /\ last'.eff.fetch[1].options.headers = << <<"Content-Type", "application/json">> >>
          /\ UsesCollectors(variant) =>
               LET a == last'.args
                   body == last'.eff.fetch[1].options.body
                   device == deviceInfo(env)
                   project == projectInfo(variant, a.cwd,
                                          IF variant = "A" THEN a.prismaSchema ELSE a.lists)
                   caller == << <<"dbProvider", a.dbProvider>>, <<"eventType", a.eventType>> >>
                   defined(obj) == {q \in Range(obj) : q[2] # None}
               IN /\ Range(body) = defined(device) \cup defined(project) \cup defined(caller)
                  /\ Len(body) = Cardinality(Range(body))]_vars

\* a request went out with both caller fields in its body
C7_Witness ==
  /\ pc = "inCall" /\ UsesCollectors(variant)
  /\ last.eff.promise /\ ~last.eff.caught
  /\ <<"dbProvider", Some("mydb")>> \in Range(last.eff.fetch[1].options.body)
  /\ <<"eventType", Some("test-event")>> \in Range(last.eff.fetch[1].options.body)

\* C8 as stated: a call made while the disable variable holds any truthy value
\* issues no request and collects nothing.
C8_AnyTruthyValueSuppresses ==
  [][(IsCall /\ env[DisabledVar(variant)] \notin {None, Some("")})
       => (last'.eff.fetch = <<>> /\ ~last'.eff.device /\ ~last'.eff.project)]_vars

\* C8 amended: a call is suppressed exactly when the disable variable holds the
\* one literal the loaded variant compares with; with any other value, truthy
\* or not, the call goes on to collect the device fingerprint.
C8_OnlyTheLiteralSuppresses ==
  [][IsCall
       => IF env[DisabledVar(variant)] = Some(DisabledValue(variant))
          THEN last'.eff.fetch = <<>> /\ ~last'.eff.device /\ ~last'.eff.project
          ELSE last'.eff.device]_vars

\* a truthy value other than the literal was set and a request went out
C8_Witness ==
  /\ pc = "inCall"
  /\ env[DisabledVar(variant)] \notin {None, Some(""), Some(DisabledValue(variant))}
  /\ last.eff.device /\ last.eff.promise

\* C9: when the module-level code of variant E has run and telemetry is
\* disabled, by a truthy persisted telemetry.disabled or by
\* KEYSTONE_TELEMETRY_DISABLED = '1' at load, NEXT_TELEMETRY_DISABLED and
\* CHECKPOINT_DISABLE are both '1'.
C9_DownstreamDisabled ==
  [][(IsLoadE /\ (Truthy(userConfig) \/ env["KEYSTONE_TELEMETRY_DISABLED"] = Some("1")))
       => /\ env'["NEXT_TELEMETRY_DISABLED"] = Some("1")
          /\ env'["CHECKPOINT_DISABLE"] = Some("1")]_vars

C9_Witness ==
  /\ variant = "E" /\ modPc = "loaded" /\ calls = 0
  /\ userConfig = "true"
  /\ env["NEXT_TELEMETRY_DISABLED"] = Some("1")
  /\ env["CHECKPOINT_DISABLE"] = Some("1")

\* C10: after the module-level code of variant E, KEYSTONE_TELEMETRY_DISABLED
\* is '1' when the persisted telemetry.disabled is truthy, whatever the
\* variable held, and otherwise exactly when the variable held '1'.
C10_PreferenceThenEnvironment ==
  [][IsLoadE
       => (env'["KEYSTONE_TELEMETRY_DISABLED"] = Some("1"))
            = (IF Truthy(userConfig) THEN TRUE
               ELSE env["KEYSTONE_TELEMETRY_DISABLED"] = Some("1"))]_vars

\* the preference is a truthy value other than true and the state is disabled
C10_Witness ==
  /\ variant = "E" /\ modPc = "loaded" /\ calls = 0
  /\ userConfig = "'false'"
  /\ env["KEYSTONE_TELEMETRY_DISABLED"] = Some("1")

\* C11: after module initialization nothing that belongs to sendTelemetryEvent
\* writes process.env: not the body of a call, in whichever mode it runs, not
\* the return, not a completion handler.
C11_CallsWriteNoEnv ==
  [][(IsCall \/ pc = "inCall" \/ requests' # requests) => env' = env]_vars

\* a call in which a step threw has run and the disable variable is still unset
C11_Witness ==
  /\ pc = "inCall"
  /\ last.eff.caught
  /\ env[DisabledVar(variant)] = None

\* the objects a call lets out: the bodies it hands to fetch and the objects
\* it logs in debug mode
Payloads(eff) ==
  {eff.fetch[i].options.body : i \in 1..Len(eff.fetch)}
    \cup {eff.console[i][2] : i \in {j \in 1..Len(eff.console) : eff.console[j][1] = "object"}}

DigestFields == {"project", "pathHash", "schema", "schemaHash", "gitOriginHash"}

\* C12: in every body sent and every payload logged, no field holds the raw
\* cwd, the raw schema text or the raw git URL, and the fields that carry a
\* digest (project identifier, path, schema, git origin) hold nothing but a
\* digest: never a string supplied as is by the environment.
C12_OnlyDigestsLeaveTheProcess ==
  [][IsCall =>
       \A payload \in Payloads(last'.eff) : \A field \in Range(payload) :
         /\ field[2] \notin ({last'.args.cwd, last'.args.prismaSchema,
                              Some(Join(gitOutput[1]))} \ {None})
         /\ (field[1] \in DigestFields /\ "TELEMETRY_PROJECT" \in DOMAIN env)
              => field[2] \notin ({env["TELEMETRY_PROJECT"]} \ {None, Some("")})]_vars

\* C13: whichever of the forms git@host:path, https://host/path,
\* http://host/path, https://user@host/path the git command prints, with or
\* without a trailing newline, gitOriginHash is the digest of host/path.
C13_SameHashForEveryForm ==
  (result # None) =>
    \A h \in GitHosts, p \in GitPaths :
      gitOutput \in {Some(raw) : raw \in GitForms(h, p)}
        => Get(result, "gitOriginHash") = hashText(Some(Join(h \o <<"/">> \o p)))

\* the https form with a user and a newline gave the digest the test expects
C13_Witness ==
  /\ result # None
  /\ gitOutput = Some(Https \o <<"u", "s", "e", "r", "n", "a", "m", "e">> \o <<"@">>
                        \o GithubHost \o <<"/">> \o KeystonePath \o <<"\n">>)
  /\ Get(result, "gitOriginHash") = hashText(GitOriginNormalized)

\* C14: when the git command fails or prints the empty string, projectInfo
\* returns, and its gitOriginHash is null, not the digest of the empty string.
C14_NoOriginGivesNull ==
  (gitOutput \in {None, Some(<<>>)}) =>
    /\ (result = None => ENABLED NextGit)
    /\ (result # None =>
          /\ Get(result, "gitOriginHash") = Null
          /\ Get(result, "gitOriginHash") # hashText(Some("")))

C14_Witness ==
  /\ result # None
  /\ gitOutput = Some(<<>>)
  /\ Get(result, "gitOriginHash") = Null
  /\ Get(result, "pathHash") = hashText(Some("path"))

LocaleOrder == <<"LC_ALL", "LC_MESSAGES", "LANG", "LANGUAGE", "LC_NAME">>

NonEmpty(e, n) == e[n] # None /\ e[n][1] # <<>>

\* the first non-empty value among the variables of order, None when there is none
FirstNonEmpty(e, order) ==
  IF \E i \in 1..Len(order) : NonEmpty(e, order[i])
  THEN e[order[CHOOSE i \in 1..Len(order) :
                 NonEmpty(e, order[i]) /\ \A j \in 1..(i - 1) : ~NonEmpty(e, order[j])]]
  ELSE None

\* loc is the part of str before its first '.', or all of str when it has none
BeforeFirstDot(loc, str) ==
  \E k \in 0..Len(str) :
    /\ \A i \in 1..k : str[i] # "."
    /\ k = Len(str) \/ str[k + 1] = "."
    /\ loc = Some(Join(SubSeq(str, 1, k)))

\* C15: the locale field is the locale value up to its first '.', and the
\* whole value when it contains no '.'.
C15_EncodingStripped ==
  (result # None) =>
    LET str == FirstNonEmpty(env, LocaleOrder)
    IN str # None =>
         /\ BeforeFirstDot(Get(result, "locale"), str[1])
         /\ (\A i \in 1..Len(str[1]) : str[1][i] # ".") => Get(result, "locale") = Some(Join(str[1]))

\* a value with two dots was cut at the first one
C15_Witness ==
  /\ result # None
  /\ env["LC_ALL"] = Some(<<"a", ".", "b", ".", "c">>)
  /\ Get(result, "locale") = Some("a")

\* C16 as stated: the locale comes from the first non-empty of LC_ALL,
\* LC_MESSAGES, LANG, LANGUAGE, and is null when none of the four has a value.
C16_FourVariables ==
  (result # None) =>
    LET str == FirstNonEmpty(env, SubSeq(LocaleOrder, 1, 4))
    IN IF str = None
       THEN Get(result, "locale") = Null
       ELSE BeforeFirstDot(Get(result, "locale"), str[1])

\* C16 amended: LC_NAME is a fifth source, read after the four; the locale is
\* null only when none of the five has a non-empty value.
C16_FiveVariables ==
  (result # None) =>
    LET str == FirstNonEmpty(env, LocaleOrder)
    IN IF str = None
       THEN Get(result, "locale") = Null
       ELSE BeforeFirstDot(Get(result, "locale"), str[1])

\* only LC_NAME has a value, and the locale is taken from it
C16_Witness ==
  /\ result # None
  /\ \A n \in LocaleNames \ {"LC_NAME"} : ~NonEmpty(env, n)
  /\ env["LC_NAME"] = Some(<<"e", "n", "_", "A", "U", ".", "U", "T", "F", "8">>)
  /\ Get(result, "locale") = Some("en_AU")

CallerKeys == {"eventType", "dbProvider"}

BothFlagsSet(v, e) ==
  HasDebug(v) /\ e[DisabledVar(v)] = Some(DisabledValue(v)) /\ e[DebugVar(v)] = Some("1")

\* C18: in the variants that read a debug flag, a call made while both the
\* disable flag and the debug flag are set writes nothing to the console,
\* runs no collector and invokes no fetch.
C18_DisableBeforeDebug ==
  [][(IsCall /\ BothFlagsSet(variant, env))
       => /\ last'.eff.console = <<>>
          /\ ~last'.eff.device /\ ~last'.eff.project
          /\ last'.eff.fetch = <<>> /\ ~last'.eff.promise
          /\ ~last'.eff.threw
          /\ fetchCount' = fetchCount /\ requests' = requests]_vars

C18_Witness ==
  /\ pc = "inCall"
  /\ BothFlagsSet(variant, env)
  /\ last.args.cwd # None
  /\ last.eff = NoEffect

DebugOnly(v, e) ==
  HasDebug(v) /\ e[DebugVar(v)] = Some("1") /\ e[DisabledVar(v)] # Some(DisabledValue(v))

\* the line that carries the resolved request URL
UrlLine(v, e) ==
  <<"text", "[Telemetry]: " \o Or(e[EndpointVar(v)], DefaultEndpoint(v)) \o EventPath(v)>>

\* C19 as stated: a call made with the debug flag set and telemetry not
\* disabled writes the resolved request URL and the payload to the console
\* and invokes no fetch.
C19_DebugWritesUrlAndPayload ==
  [][(IsCall /\ DebugOnly(variant, env))
       => /\ UrlLine(variant, env) \in Range(last'.eff.console)
          /\ <<"object", eventData(variant, env, last'.args)>> \in Range(last'.eff.console)
          /\ last'.eff.fetch = <<>> /\ ~last'.eff.promise]_vars

\* C19 amended: such a call invokes no fetch; when building the payload does
\* not throw it writes the payload, preceded by the URL line in variant E
\* only; when building the payload throws, no payload and no URL are written.
C19_DebugWritesPayload ==
  [][(IsCall /\ DebugOnly(variant, env))
       => /\ last'.eff.fetch = <<>> /\ ~last'.eff.promise
          /\ fetchCount' = fetchCount /\ requests' = requests
          /\ IF last'.eff.threw
             THEN \A i \in 1..Len(last'.eff.console) :
                    last'.eff.console[i][1] \notin {"text", "object"}
             ELSE last'.eff.console =
                    (IF variant = "E" THEN <<UrlLine(variant, env)>> ELSE <<>>)
                      \o << <<"object", eventData(variant, env, last'.args)>> >>]_vars

\* variant E wrote the URL line, then the payload, with the endpoint overridden
C19_Witness ==
  /\ pc = "inCall" /\ variant = "E"
  /\ DebugOnly(variant, env)
  /\ env[EndpointVar(variant)] = Some(OverrideEndpoint)
  /\ Len(last.eff.console) = 2
  /\ last.eff.console[1] = <<"text", "[Telemetry]: https://keylemetry.com/v1/event">>
  /\ last.eff.console[2][1] = "object"
  /\ last.eff.fetch = <<>>

\* C20: a call in which a step throws writes nothing to the console, changes
\* no state, issues no request after the throw and does not raise.
C20_ThrowLeavesNoTrace ==
  [][(IsCall /\ last'.eff.threw)
       => /\ last'.eff.console = <<>>
          /\ env' = env
          /\ ~last'.eff.promise /\ requests' = requests
          /\ ~last'.eff.raised]_vars

\* C21: a step in which a request completes, with a response of any status
\* or with a failure, changes that request's entry only: no variable of the
\* process changes, nothing is written, fetch is not invoked and no request
\* is added; every status gives the same entry, and no completion leaves an
\* unhandled rejection.
C21_CompletionDoesNothing ==
  [][(requests' # requests /\ ~IsCall)
       => /\ \E i \in 1..Len(requests) :
               /\ requests[i] = "pending"
               /\ requests' = [requests EXCEPT ![i] = requests'[i]]
               /\ \/ /\ requests'[i] = "resolved"
                     /\ \A status \in Statuses : settled(variant, Fulfilled(status)) = "resolved"
                  \/ requests'[i] = "rejected"
          /\ "unhandled" \notin Range(requests')
          /\ UNCHANGED <<env, TELEMETRY_ENDPOINT, modPc, pc, calls, fetchCount, last>>]_vars

\* in a variant whose chain is .then().catch(() => {}), one request was
\* answered and another failed
C21_Witness ==
  /\ variant \in {"A", "B", "C"}
  /\ pc = "caller"
  /\ Len(requests) = 2
  /\ requests[1] = "rejected" /\ requests[2] = "resolved"
  /\ fetchCount = 2

\* a call that ran nothing: no collector, no console line, no fetch
Suppressed(eff) ==
  ~eff.device /\ ~eff.project /\ eff.console = <<>> /\ eff.fetch = <<>> /\ ~eff.promise

\* C22: a call is suppressed exactly when the disable variable holds the
\* disabling value at the time of that call, whatever it held at earlier
\* calls or when the module was loaded.
C22_DisableReadAtEveryCall ==
  [][IsCall => /\ Suppressed(last'.eff) <=> env[DisabledVar(variant)] = Some(DisabledValue(variant))
               /\ ~Suppressed(last'.eff) => last'.eff.device]_vars

\* the module-level code set the variable from the persisted preference, the
\* host then cleared it, and the second call since issued the first request
C22_Witness ==
  /\ variant = "E" /\ Truthy(userConfig) /\ modPc = "loaded"
  /\ calls = 2 /\ pc = "inCall"
  /\ fetchCount = 1 /\ Len(requests) = 1
  /\ last.eff.promise
  /\ env[DisabledVar(variant)] = None

HasLists(v) == v \in {"C", "D", "E"}

\* the same lists with every list and every field given another name
RenameLists(ls) ==
  [i \in 1..Len(ls) |->
     <<"List" \o ToString(i), [j \in 1..Len(ls[i][2]) |-> "field" \o ToString(j)]>>]

\* the names of the lists and of their fields
ListNames(ls) ==
  {ls[i][1] : i \in 1..Len(ls)} \cup UNION {Range(ls[i][2]) : i \in 1..Len(ls)}

SummaryKeys == {"meta", "fieldCounts"}

\* C23: in the variants that take a lists parameter, the payload of a call
\* that passes lists is the payload of the same call with every list and
\* field renamed, and no field of it is a list name or a field name; the
\* payload of a call that passes no lists has no schema summary.
C23_OnlyCountsOfLists ==
  [][(IsCall /\ HasLists(variant))
       => \A payload \in Payloads(last'.eff) :
            IF last'.args.lists # None
            THEN LET renamed == [last'.args EXCEPT !.lists = Some(RenameLists(last'.args.lists[1]))]
                 IN /\ payload \in {eventData(variant, env, renamed),
                                    Stringify(eventData(variant, env, renamed))}
                    /\ \A field \in Range(payload) :
                         field[2] \notin {Some(n) : n \in ListNames(last'.args.lists[1])}
                    /\ \E field \in Range(payload) :
                         field[1] \in SummaryKeys /\ field[2] # None
            ELSE \A field \in Range(payload) :
                   field[1] \in SummaryKeys => field[2] = None]_vars

\* variant C sent a body whose only trace of the two lists is their number
C23_Witness ==
  /\ variant = "C" /\ pc = "inCall"
  /\ last.args.lists = Some(TestLists)
  /\ last.eff.promise
  /\ Get(last.eff.fetch[1].options.body, "meta") = Some("{listCount:2}")

DownstreamSet(e) ==
  e["NEXT_TELEMETRY_DISABLED"] = Some("1") /\ e["CHECKPOINT_DISABLE"] = Some("1")

\* C25 as stated: in every state after the module-level code of variant E,
\* when KEYSTONE_TELEMETRY_DISABLED holds '1', so that a call would be
\* suppressed, NEXT_TELEMETRY_DISABLED and CHECKPOINT_DISABLE are both '1'.
C25_SuppressedImpliesDownstream ==
  (variant = "E" /\ modPc = "loaded" /\ env["KEYSTONE_TELEMETRY_DISABLED"] = Some("1"))
    => DownstreamSet(env)

\* C25 amended: the two variables are '1' at the end of the module-level code
\* when KEYSTONE_TELEMETRY_DISABLED is '1' then; a call suppressed later
\* leaves them as they are.
C25_PropagatedAtLoadOnly ==
  [][/\ (IsLoadE /\ env'["KEYSTONE_TELEMETRY_DISABLED"] = Some("1")) => DownstreamSet(env')
     /\ (IsCall /\ variant = "E" /\ env["KEYSTONE_TELEMETRY_DISABLED"] = Some("1"))
          => /\ Suppressed(last'.eff)
             /\ env'["NEXT_TELEMETRY_DISABLED"] = env["NEXT_TELEMETRY_DISABLED"]
             /\ env'["CHECKPOINT_DISABLE"] = env["CHECKPOINT_DISABLE"]]_vars

\* the host set the variable after the load; the call was suppressed and
\* neither downstream variable is set
C25_Witness ==
  /\ variant = "E" /\ modPc = "loaded" /\ pc = "inCall"
  /\ userConfig = "undefined"
  /\ env["KEYSTONE_TELEMETRY_DISABLED"] = Some("1")
  /\ Suppressed(last.eff)
  /\ env["NEXT_TELEMETRY_DISABLED"] = None
  /\ env["CHECKPOINT_DISABLE"] = None

\* C26: the load of the telemetry module never fails, whatever the state of
\* the preference store, and once it has been attempted sendTelemetryEvent
\* can be called.
C26_LoadNeverRaises ==
  /\ modPc # "failed"
  /\ (modPc # "unloaded" /\ pc = "caller" /\ calls < MaxCalls)
       => ENABLED (\E a \in ArgSets(variant), f \in Faults : Call(a, f))

\* C27: with no persisted preference, a call to the KEYSTONE_TELEMETRY_*
\* version and the same call to the TELEMETRY_* version of part_000, in
\* environments equal up to the renaming of the three variables, invoke fetch
\* the same number of times with the same URL, options and body.
C27_SameRequestsUnderRenaming ==
  (result # None) =>
    /\ Len(result[1].new.fetch) = Len(result[1].old.fetch)
    /\ result[1].new.fetch = result[1].old.fetch
    /\ result[1].new.promise = result[1].old.promise

\* both versions sent the full payload to the overridden endpoint
C27_Witness ==
  /\ result # None
  /\ env["KEYSTONE_TELEMETRY_ENDPOINT"] = Some(OverrideEndpoint)
  /\ last.args.lists = Some(TestLists)
  /\ Len(result[1].new.fetch) = 1 /\ Len(result[1].old.fetch) = 1
  /\ result[1].old.fetch[1].url = "https://keylemetry.com/v1/event"
  /\ result[1].new.promise

====
